---- MODULE Spec2Model ----
(***************************************************************************)
(* Model of the synthetic usage data generator of setup_project.py:        *)
(* generate_sample_data, generate_burst_pattern, generate_cost_focused_data *)
(* and the two DataFrame.sample resamplings of the scenarios table.        *)
(*                                                                         *)
(* Units.  An instant (datetime) is a whole number of seconds since an     *)
(* arbitrary epoch midnight; the microseconds of datetime.now() are        *)
(* carried unchanged by every operation used here (timedelta arithmetic,   *)
(* replace(hour, minute, second)) and are left out.  A response time is a  *)
(* whole number of microseconds (1e-6 s); random.uniform draws are whole   *)
(* numbers of milliseconds (1e-3 s), so the product of two draws is in      *)
(* microseconds.                                                           *)
(***************************************************************************)
EXTENDS Integers, Sequences, FiniteSets, TLC

VARIABLES
    pc,               \* position of the running function
    clock,            \* the wall clock, as datetime.now() would return it
    elapsed,          \* seconds the clock has advanced since Init
    now,              \* the clock value the current function last read
    start_date,       \* generate_sample_data: now - 30 days
    day,              \* generate_sample_data: the loop variable day
    burst_times,      \* generate_burst_pattern: the date_range of window starts
    end_time,         \* generate_burst_pattern: the end= argument of date_range
    wi,               \* generate_burst_pattern: index of burst_time in burst_times
    kind,             \* which append statement produced rec
    rec,              \* the record most recently appended
    rng,              \* state of the process-wide pseudo-random source
    base_df,          \* the base table handed to a scenario function
    additional_data,  \* generate_burst_pattern: the list additional_data
    remaining,        \* iterations left in the innermost for-loop
    counts,           \* generate_burst_pattern: the randint(50, 100) of each window
    expensive_data,   \* generate_cost_focused_data: the list expensive_data
    result,           \* the table a scenario function returned
    picked            \* DataFrame.sample: the row labels drawn so far

vars == <<pc, clock, elapsed, now, start_date, day, burst_times, end_time, wi,
          kind, rec, rng, base_df, additional_data, remaining, counts,
          expensive_data, result, picked>>

datavars == <<rng, base_df, additional_data, remaining, counts,
              expensive_data, result, picked>>

----------------------------------------------------------------------------
(* Bounds of the model *)

\* the clock advances by at most MaxTick seconds between two reads
MaxTick == 1
\* and by at most MaxElapsed seconds over a whole run
MaxElapsed == 2
\* seeds 0..MaxSeed of the pseudo-random source
MaxSeed == 1
\* rows of the base table handed to generate_burst_pattern and
\* generate_cost_focused_data
MaxBaseRows == 2
\* rows of the base table resampled with frac=0.3
MaxSampleRows == 15
\* rows of the base table resampled with frac=2, replace=True
MaxHeavyRows == 3

----------------------------------------------------------------------------
(* datetime / timedelta *)

Minute == 60
Hour == 60 * Minute
Day == 24 * Hour

\* timedelta(days=d, hours=h, minutes=m)
timedelta(d, h, m) == d * Day + h * Hour + m * Minute

\* the calendar date of an instant, as a day number
Date(t) == t \div Day

\* datetime.replace(hour=h, minute=m, second=s): same date, new time of day
Replace(t, h, m, s) == Date(t) * Day + h * Hour + m * Minute + s

\* datetime.isoformat(): the text "date T hh:mm:ss", kept as its four fields
isoformat(t) ==
    <<Date(t), (t % Day) \div Hour, (t % Hour) \div Minute, t % Minute>>

\* the instant an ISO-8601 text denotes (used to read a record's timestamp)
fromisoformat(s) == s[1] * Day + s[2] * Hour + s[3] * Minute + s[4]

\* pd.date_range(start, end, freq='3D'): start, start + 3 days, ... up to end
RECURSIVE date_range(_, _, _)
date_range(start, end, freq) ==
    IF start > end THEN <<>>
    ELSE <<start>> \o date_range(start + freq, end, freq)

\* clock values at which a run may begin: a midnight and the last second of a day
ClockSamples == {100 * Day, 100 * Day + 23 * Hour + 59 * Minute + 59}

----------------------------------------------------------------------------
(* random: draws enumerated over the ends and one interior point of a range *)

\* random.randint(a, b), a <= n <= b, for the range r = <<a, b>>; the two
\* ends are enumerated
randint(r) == {r[1], r[2]}

\* random.uniform(a, b) in milliseconds for the range r = <<a, b>>; the ends
\* and an interior point are enumerated
uniform(r) == {r[1], r[1] + ((r[2] - r[1]) * 3) \div 11, r[2]}

\* random.choices(range(n), weights)[0]: an index of positive weight;
\* the first, the middle and the last such index are enumerated
choices(weights) ==
    {i \in {0, Len(weights) \div 2, Len(weights) - 1} : weights[i + 1] > 0}

\* random.choice(seq)
choice(seq) == {seq[i] : i \in 1..Len(seq)}

\* round2 with the rounding left out
round2_dropped(x) == x

\* round(x, 2) of x microseconds: the nearest whole number of hundredths of a
\* second (multiple of 10000 microseconds), ties to the even hundredth
round2(x) ==
    LET q == x \div 10000
        r == x % 10000
    IN  IF r > 5000 \/ (r = 5000 /\ q % 2 = 1) THEN (q + 1) * 10000
        ELSE q * 10000

----------------------------------------------------------------------------
(* random, followed along one run: the draws are a function of the seed.    *)
(* The generator of the library is replaced by a small linear congruential *)
(* one; a draw advances the state and maps it into the range asked for.    *)

NextRng(r) == (r * 75 + 74) % 65537

\* the state after k draws
RECURSIVE Skip(_, _)
Skip(r, k) == IF k = 0 THEN r ELSE Skip(NextRng(r), k - 1)

\* random.randint / random.uniform over the range rg = <<a, b>>, in state r
randint_at(r, rg) == rg[1] + (r % (rg[2] - rg[1] + 1))
uniform_at(r, rg) == rg[1] + (r % (rg[2] - rg[1] + 1))

\* random.choice(seq) in state r
choice_at(r, seq) == seq[1 + (r % Len(seq))]

\* sum of the first n weights
RECURSIVE CumWeight(_, _)
CumWeight(weights, n) ==
    IF n = 0 THEN 0 ELSE CumWeight(weights, n - 1) + weights[n]

\* random.choices(range(n), weights)[0] in state r: the first index whose
\* cumulative weight exceeds a point drawn below the total weight
choices_at(r, weights) ==
    LET x == r % CumWeight(weights, Len(weights))
    IN  (CHOOSE i \in 1..Len(weights) :
            /\ CumWeight(weights, i) > x
            /\ \A j \in 1..(i - 1) : CumWeight(weights, j) <= x) - 1

\* the clock advance a read finds, e seconds into the run, in state r
ReadClockAt(r, e) ==
    IF e + (r % (MaxTick + 1)) <= MaxElapsed THEN r % (MaxTick + 1) ELSE 0

----------------------------------------------------------------------------
(* The provider catalog, generate_sample_data lines 47-72 *)

ProviderNames == <<"OpenAI", "Anthropic", "Google", "Cohere">>

providers_data ==
    [p \in {"OpenAI", "Anthropic", "Google", "Cohere"} |->
        CASE p = "OpenAI" ->
               <<"gpt-4", "gpt-4-turbo", "gpt-3.5-turbo", "gpt-3.5-turbo-16k">>
          [] p = "Anthropic" ->
               <<"claude-3-opus", "claude-3-sonnet", "claude-3-haiku",
                 "claude-instant">>
          [] p = "Google" ->
               <<"gemini-pro", "gemini-pro-vision", "palm-2", "codey">>
          [] p = "Cohere" ->
               <<"command", "command-light", "embed-english",
                 "embed-multilingual">>]

\* 'gpt-4' in model or 'claude-3-opus' in model: the catalog's model names
\* that contain one of the two substrings
IsHeavyTier(model) == model \in {"gpt-4", "gpt-4-turbo", "claude-3-opus"}

\* the hour weights of line 89
HourWeights ==
    <<1, 1, 1, 1, 1, 1, 2, 4, 6, 8, 8, 8, 8, 8, 8, 8, 8, 6, 4, 2, 1, 1, 1, 1>>

NoRec == [provider_name |-> "", model_name |-> "", input_tokens |-> 0,
          output_tokens |-> 0, response_time |-> 0, timestamp |-> <<0, 0, 0, 0>>]

\* the dict appended to a list of records
Record(provider, model, inp, out, rt, ts) ==
    [provider_name |-> provider, model_name |-> model, input_tokens |-> inp,
     output_tokens |-> out, response_time |-> rt, timestamp |-> isoformat(ts)]

----------------------------------------------------------------------------
(* The ranges the three generators draw from, as <<low, high>> *)

Days_range31 == 0..30                       \* range(31) in place of range(30)
Days == 0..29                               \* range(30), line 78
MinuteOfHour == <<0, 59>>                   \* line 92
SecondOfMinute == <<0, 59>>                 \* line 93
BaseInputTokens == <<50, 2000>>             \* line 102
BaseOutputTokens == <<20, 800>>             \* line 103
BaseResponseTime == <<500, 3000>>           \* line 106
HeavyFactor == <<1500, 2500>>               \* line 108
LightFactor == <<800, 1200>>                \* line 110

BurstCalls == <<50, 100>>                   \* line 156
BurstMinutes == <<0, 120>>                  \* line 158
BurstProviders == <<"OpenAI", "Anthropic">> \* line 161
BurstModels == <<"gpt-4", "claude-3-opus">> \* line 162
BurstInputTokens_cost == <<1000, 4000>>     \* the range of line 194 instead
BurstInputTokens == <<500, 3000>>           \* line 167
BurstOutputTokens == <<200, 1500>>          \* line 168
BurstResponseTime == <<2000, 8000>>         \* line 169

CheapCalls == 300                           \* line 201
ExpensiveCalls_cheap == CheapCalls          \* range(300) in both loops
ExpensiveCalls == 200                       \* line 184
CostDays == <<1, 30>>                       \* lines 186, 203
CostHours == <<0, 23>>                      \* lines 187, 204
CostMinutes == <<0, 59>>                    \* lines 188, 205
ExpensiveInputTokens == <<1000, 4000>>      \* line 194
ExpensiveOutputTokens == <<500, 2000>>      \* line 195
ExpensiveResponseTime == <<3000, 10000>>    \* line 196
CheapProviders == <<"Google", "Cohere">>    \* line 209
CheapModels == <<"gemini-pro", "command-light">>  \* line 210
CheapInputTokens == <<100, 800>>            \* line 211
CheapOutputTokens == <<50, 300>>            \* line 212
CheapResponseTime == <<500, 2000>>          \* line 213

\* lines 95-119: the record of one call on day `day`
BaseRow(start, d, hour, minute, second, provider, model, input_tokens, output_tokens, base_response_time, factor) ==
    LET current_date == start + timedelta(d, 0, 0)
        timestamp == Replace(current_date, hour, minute, second)
        response_time == base_response_time * factor
    IN  Record(provider, model, input_tokens, output_tokens,
               round2(response_time), timestamp)

\* lines 157-171: the record of one call of the window starting at burst_time
BurstRow(burst_time, minutes, provider, model, input_tokens, output_tokens, rt) ==
    LET timestamp == burst_time + timedelta(0, 0, minutes)
    IN  Record(provider, model, input_tokens, output_tokens,
               round2(rt * 1000), timestamp)

\* lines 185-198: one expensive record, the clock reading t
ExpensiveRow(t, days, hours, minutes, input_tokens, output_tokens, rt) ==
    LET timestamp == t - timedelta(days, hours, minutes)
    IN  Record("OpenAI", "gpt-4", input_tokens, output_tokens,
               round2(rt * 1000), timestamp)

\* lines 202-215: one efficient record, the clock reading t
CheapRow(t, days, hours, minutes, provider, model, input_tokens, output_tokens, rt) ==
    LET timestamp == t - timedelta(days, hours, minutes)
    IN  Record(provider, model, input_tokens, output_tokens,
               round2(rt * 1000), timestamp)

\* the rows, each made of the draws that follow state r

BaseRowAt(r, start, d) ==
    LET provider == choice_at(Skip(r, 4), ProviderNames)
        model == choice_at(Skip(r, 5), providers_data[provider])
    IN  BaseRow(start, d, choices_at(Skip(r, 1), HourWeights),
                randint_at(Skip(r, 2), MinuteOfHour),
                randint_at(Skip(r, 3), SecondOfMinute), provider, model,
                randint_at(Skip(r, 6), BaseInputTokens),
                randint_at(Skip(r, 7), BaseOutputTokens),
                uniform_at(Skip(r, 8), BaseResponseTime),
                uniform_at(Skip(r, 9), IF IsHeavyTier(model) THEN HeavyFactor
                                                             ELSE LightFactor))

BurstRowAt(r, burst_time) ==
    BurstRow(burst_time, randint_at(Skip(r, 1), BurstMinutes),
             choice_at(Skip(r, 2), BurstProviders),
             choice_at(Skip(r, 3), BurstModels),
             randint_at(Skip(r, 4), BurstInputTokens),
             randint_at(Skip(r, 5), BurstOutputTokens),
             uniform_at(Skip(r, 6), BurstResponseTime))

ExpensiveRowAt(r, t) ==
    ExpensiveRow(t, randint_at(Skip(r, 1), CostDays),
                 randint_at(Skip(r, 2), CostHours),
                 randint_at(Skip(r, 3), CostMinutes),
                 randint_at(Skip(r, 4), ExpensiveInputTokens),
                 randint_at(Skip(r, 5), ExpensiveOutputTokens),
                 uniform_at(Skip(r, 6), ExpensiveResponseTime))

CheapRowAt(r, t) ==
    CheapRow(t, randint_at(Skip(r, 1), CostDays),
             randint_at(Skip(r, 2), CostHours),
             randint_at(Skip(r, 3), CostMinutes),
             choice_at(Skip(r, 4), CheapProviders),
             choice_at(Skip(r, 5), CheapModels),
             randint_at(Skip(r, 6), CheapInputTokens),
             randint_at(Skip(r, 7), CheapOutputTokens),
             uniform_at(Skip(r, 8), CheapResponseTime))

\* a base table of n rows as generate_sample_data builds it at clock t, row i
\* on day (i - 1) % 30
BaseTable(t, n) ==
    [i \in 1..n |->
        BaseRowAt(NextRng(101 * i), t - timedelta(30, 0, 0), (i - 1) % 30)]

\* the two frames concatenated in the other order
concat_swapped(a, b) == b \o a

\* pd.concat([a, b], ignore_index=True)
concat(a, b) == a \o b

----------------------------------------------------------------------------
(* Reading the clock *)

\* the seconds by which a read of datetime.now() may find the clock advanced,
\* e seconds into the run
ReadClock(e) == {d \in 0..MaxTick : e + d <= MaxElapsed}

----------------------------------------------------------------------------
(* Specification Spec: the records the generators append, one per step *)

Init ==
    /\ pc = "start"
    /\ clock \in ClockSamples
    /\ elapsed = 0
    /\ now = 0
    /\ start_date = 0
    /\ day = 0
    /\ burst_times = <<>>
    /\ end_time = 0
    /\ wi = 0
    /\ kind = "none"
    /\ rec = NoRec
    /\ rng = 0
    /\ base_df = <<>>
    /\ additional_data = <<>>
    /\ remaining = 0
    /\ counts = <<>>
    /\ expensive_data = <<>>
    /\ result = <<>>
    /\ picked = <<>>

\* generate_sample_data, lines 76-78: start_date = datetime.now() -
\* timedelta(days=30), and the first day of range(30)
StartSampleData ==
    /\ pc = "start"
    /\ now' = clock
    /\ start_date' = clock - timedelta(30, 0, 0)
    /\ day' = 0
    /\ pc' = "days"
    /\ UNCHANGED <<clock, elapsed, burst_times, end_time, wi, kind, rec>>
    /\ UNCHANGED datavars

\* generate_sample_data, lines 85-119: one iteration of the inner loop
BaseRecord ==
    /\ pc = "days"
    /\ kind = "none"
    /\ \E hour \in choices(HourWeights), minute \in randint(MinuteOfHour),
          second \in randint(SecondOfMinute),
          provider \in choice(ProviderNames) :
         \E model \in choice(providers_data[provider]),
            input_tokens \in randint(BaseInputTokens),
            output_tokens \in randint(BaseOutputTokens),
            base_response_time \in uniform(BaseResponseTime) :
           \E factor \in uniform(IF IsHeavyTier(model) THEN HeavyFactor
                                                       ELSE LightFactor) :
             rec' = BaseRow(start_date, day, hour, minute, second, provider,
                            model, input_tokens, output_tokens,
                            base_response_time, factor)
    /\ kind' = "base"
    /\ UNCHANGED <<pc, clock, elapsed, now, start_date, day, burst_times,
                   end_time, wi>>
    /\ UNCHANGED datavars

\* lines 85, 156, 184, 201: back to the head of the innermost loop
NextIteration ==
    /\ kind # "none"
    /\ kind' = "none"
    /\ rec' = NoRec
    /\ UNCHANGED <<pc, clock, elapsed, now, start_date, day, burst_times,
                   end_time, wi>>
    /\ UNCHANGED datavars

\* generate_sample_data, line 78: the next day of range(30); every day has at
\* least 5 calls (line 82)
NextDay ==
    /\ pc = "days"
    /\ kind = "base"
    /\ day + 1 \in Days
    /\ day' = day + 1
    /\ kind' = "none"
    /\ rec' = NoRec
    /\ UNCHANGED <<pc, clock, elapsed, now, start_date, burst_times, end_time,
                   wi>>
    /\ UNCHANGED datavars

\* generate_burst_pattern, lines 145-151: the two clock reads, the date_range
\* and additional_data = []
StartBurst ==
    /\ pc = "days"
    /\ kind = "base"
    /\ day + 1 \notin Days
    /\ \E d1 \in ReadClock(elapsed) :
         \E d2 \in ReadClock(elapsed + d1) :
           /\ now' = clock + d1
           /\ end_time' = clock + d1 + d2
           /\ clock' = clock + d1 + d2
           /\ elapsed' = elapsed + d1 + d2
           /\ burst_times' = date_range(clock + d1 - timedelta(30, 0, 0),
                                        clock + d1 + d2, timedelta(3, 0, 0))
    /\ wi' = 1
    /\ kind' = "none"
    /\ rec' = NoRec
    /\ pc' = "burst"
    /\ UNCHANGED <<start_date, day>>
    /\ UNCHANGED datavars

\* generate_burst_pattern, lines 156-171: one iteration of the inner loop
BurstRecord ==
    /\ pc = "burst"
    /\ kind = "none"
    /\ wi <= Len(burst_times)
    /\ \E minutes \in randint(BurstMinutes),
          provider \in choice(BurstProviders), model \in choice(BurstModels),
          input_tokens \in randint(BurstInputTokens),
          output_tokens \in randint(BurstOutputTokens),
          rt \in uniform(BurstResponseTime) :
         rec' = BurstRow(burst_times[wi], minutes, provider, model,
                         input_tokens, output_tokens, rt)
    /\ kind' = "burst"
    /\ UNCHANGED <<pc, clock, elapsed, now, start_date, day, burst_times,
                   end_time, wi>>
    /\ UNCHANGED datavars

\* generate_burst_pattern, line 152: the next burst_time; every window has at
\* least 50 calls (line 156)
NextWindow ==
    /\ pc = "burst"
    /\ kind = "burst"
    /\ wi < Len(burst_times)
    /\ wi' = wi + 1
    /\ kind' = "none"
    /\ rec' = NoRec
    /\ UNCHANGED <<pc, clock, elapsed, now, start_date, day, burst_times,
                   end_time>>
    /\ UNCHANGED datavars

\* generate_cost_focused_data is entered after generate_burst_pattern returned;
\* line 181, expensive_data = []
StartCost ==
    /\ pc = "burst"
    /\ kind = "burst"
    /\ wi >= Len(burst_times)
    /\ pc' = "expensive"
    /\ kind' = "none"
    /\ rec' = NoRec
    /\ UNCHANGED <<clock, elapsed, now, start_date, day, burst_times, end_time,
                   wi>>
    /\ UNCHANGED datavars

\* generate_cost_focused_data, lines 184-198: one iteration of the first loop
ExpensiveRecord ==
    /\ pc = "expensive"
    /\ kind = "none"
    /\ \E d \in ReadClock(elapsed), days \in randint(CostDays),
          hours \in randint(CostHours), minutes \in randint(CostMinutes),
          input_tokens \in randint(ExpensiveInputTokens),
          output_tokens \in randint(ExpensiveOutputTokens),
          rt \in uniform(ExpensiveResponseTime) :
         /\ clock' = clock + d
         /\ elapsed' = elapsed + d
         /\ now' = clock + d
         /\ rec' = ExpensiveRow(clock + d, days, hours, minutes, input_tokens,
                                output_tokens, rt)
    /\ kind' = "expensive"
    /\ UNCHANGED <<pc, start_date, day, burst_times, end_time, wi>>
    /\ UNCHANGED datavars

\* generate_cost_focused_data, line 201: the first loop is over
StartCheap ==
    /\ pc = "expensive"
    /\ kind = "expensive"
    /\ pc' = "cheap"
    /\ kind' = "none"
    /\ rec' = NoRec
    /\ UNCHANGED <<clock, elapsed, now, start_date, day, burst_times, end_time,
                   wi>>
    /\ UNCHANGED datavars

\* generate_cost_focused_data, lines 201-215: one iteration of the second loop
CheapRecord ==
    /\ pc = "cheap"
    /\ kind = "none"
    /\ \E d \in ReadClock(elapsed), days \in randint(CostDays),
          hours \in randint(CostHours), minutes \in randint(CostMinutes),
          provider \in choice(CheapProviders), model \in choice(CheapModels),
          input_tokens \in randint(CheapInputTokens),
          output_tokens \in randint(CheapOutputTokens),
          rt \in uniform(CheapResponseTime) :
         /\ clock' = clock + d
         /\ elapsed' = elapsed + d
         /\ now' = clock + d
         /\ rec' = CheapRow(clock + d, days, hours, minutes, provider, model,
                            input_tokens, output_tokens, rt)
    /\ kind' = "cheap"
    /\ UNCHANGED <<pc, start_date, day, burst_times, end_time, wi>>
    /\ UNCHANGED datavars

Next ==
    \/ StartSampleData
    \/ BaseRecord
    \/ NextIteration
    \/ NextDay
    \/ StartBurst
    \/ BurstRecord
    \/ NextWindow
    \/ StartCost
    \/ ExpensiveRecord
    \/ StartCheap
    \/ CheapRecord

Spec == Init /\ [][Next]_vars

----------------------------------------------------------------------------
(* Specification SpecBurst: generate_burst_pattern(base_df), call by call *)

InitData(start, rows, seeds) ==
    /\ pc = start
    /\ clock \in ClockSamples
    /\ \E n \in 0..rows : base_df = BaseTable(clock, n)
    /\ rng \in seeds
    /\ elapsed = 0
    /\ now = 0
    /\ start_date = 0
    /\ day = 0
    /\ burst_times = <<>>
    /\ end_time = 0
    /\ wi = 0
    /\ kind = "none"
    /\ rec = NoRec
    /\ additional_data = <<>>
    /\ remaining = 0
    /\ counts = <<>>
    /\ expensive_data = <<>>
    /\ result = <<>>
    /\ picked = <<>>

InitBurst == InitData("burst_pattern", MaxBaseRows, 0..MaxSeed)

\* lines 142-151: the two clock reads, the date_range, additional_data = []
BurstBegin ==
    /\ pc = "burst_pattern"
    /\ \E d1 \in ReadClock(elapsed) :
         \E d2 \in ReadClock(elapsed + d1) :
           /\ now' = clock + d1
           /\ end_time' = clock + d1 + d2
           /\ clock' = clock + d1 + d2
           /\ elapsed' = elapsed + d1 + d2
           /\ burst_times' = date_range(clock + d1 - timedelta(30, 0, 0),
                                        clock + d1 + d2, timedelta(3, 0, 0))
    /\ additional_data' = <<>>
    /\ counts' = <<>>
    /\ wi' = 0
    /\ pc' = "burst_window"
    /\ UNCHANGED <<start_date, day, kind, rec, rng, base_df, remaining,
                   expensive_data, result, picked>>

\* lines 152-156: the next burst_time and its randint(50, 100)
BurstWindow ==
    /\ pc = "burst_window"
    /\ wi < Len(burst_times)
    /\ wi' = wi + 1
    /\ rng' = NextRng(rng)
    /\ remaining' = randint_at(rng', BurstCalls)
    /\ counts' = Append(counts, remaining')
    /\ pc' = IF remaining' > 0 THEN "burst_call" ELSE "burst_window"
    /\ UNCHANGED <<clock, elapsed, now, start_date, day, burst_times, end_time,
                   kind, rec, base_df, additional_data, expensive_data, result,
                   picked>>

\* lines 157-171: one call of the window
BurstCall ==
    /\ pc = "burst_call"
    /\ additional_data' =
          Append(additional_data, BurstRowAt(rng, burst_times[wi]))
    /\ rng' = Skip(rng, 6)
    /\ remaining' = remaining - 1
    /\ pc' = IF remaining' > 0 THEN "burst_call" ELSE "burst_window"
    /\ UNCHANGED <<clock, elapsed, now, start_date, day, burst_times, end_time,
                   wi, kind, rec, base_df, counts, expensive_data, result,
                   picked>>

\* lines 173-174: return pd.concat([burst_data, burst_df])
BurstConcat ==
    /\ pc = "burst_window"
    /\ wi >= Len(burst_times)
    /\ result' = concat(base_df, additional_data)
    /\ pc' = "burst_done"
    /\ UNCHANGED <<clock, elapsed, now, start_date, day, burst_times, end_time,
                   wi, kind, rec, rng, base_df, additional_data, remaining,
                   counts, expensive_data, picked>>

NextBurst ==
    \/ BurstBegin
    \/ BurstWindow
    \/ BurstCall
    \/ BurstConcat

SpecBurst == InitBurst /\ [][NextBurst]_vars

----------------------------------------------------------------------------
(* Specification SpecCost: generate_cost_focused_data(base_df, _), record  *)
(* by record                                                               *)

InitCost == InitData("cost_focused", MaxBaseRows, 0..MaxSeed)

\* lines 178-184: expensive_data = [] and range(200)
CostBegin ==
    /\ pc = "cost_focused"
    /\ expensive_data' = <<>>
    /\ remaining' = ExpensiveCalls
    /\ pc' = IF remaining' > 0 THEN "cost_expensive" ELSE "cost_cheap"
    /\ UNCHANGED <<clock, elapsed, now, start_date, day, burst_times, end_time,
                   wi, kind, rec, rng, base_df, additional_data, counts, result,
                   picked>>

\* lines 185-198: one expensive record; after the last one, range(300)
CostExpensive ==
    /\ pc = "cost_expensive"
    /\ LET d == ReadClockAt(rng, elapsed)
       IN  /\ clock' = clock + d
           /\ elapsed' = elapsed + d
           /\ now' = clock + d
           /\ expensive_data' =
                 Append(expensive_data, ExpensiveRowAt(rng, clock + d))
    /\ rng' = Skip(rng, 6)
    /\ IF remaining > 1
          THEN remaining' = remaining - 1 /\ pc' = "cost_expensive"
          ELSE remaining' = CheapCalls /\ pc' = "cost_cheap"
    /\ UNCHANGED <<start_date, day, burst_times, end_time, wi, kind, rec,
                   base_df, additional_data, counts, result, picked>>

\* lines 202-215: one efficient record
CostCheap ==
    /\ pc = "cost_cheap"
    /\ remaining > 0
    /\ LET d == ReadClockAt(rng, elapsed)
       IN  /\ clock' = clock + d
           /\ elapsed' = elapsed + d
           /\ now' = clock + d
           /\ expensive_data' =
                 Append(expensive_data, CheapRowAt(rng, clock + d))
    /\ rng' = Skip(rng, 8)
    /\ remaining' = remaining - 1
    /\ pc' = "cost_cheap"
    /\ UNCHANGED <<start_date, day, burst_times, end_time, wi, kind, rec,
                   base_df, additional_data, counts, result, picked>>

\* lines 217-218: return pd.concat([cost_data, cost_df])
CostConcat ==
    /\ pc = "cost_cheap"
    /\ remaining = 0
    /\ result' = concat(base_df, expensive_data)
    /\ pc' = "cost_done"
    /\ UNCHANGED <<clock, elapsed, now, start_date, day, burst_times, end_time,
                   wi, kind, rec, rng, base_df, additional_data, remaining,
                   counts, expensive_data, picked>>

NextCost ==
    \/ CostBegin
    \/ CostExpensive
    \/ CostCheap
    \/ CostConcat

SpecCost == InitCost /\ [][NextCost]_vars

----------------------------------------------------------------------------
(* Specification SpecSample: the two sample_df.sample calls of lines 128-129, *)
(* label by label, every draw enumerated                                   *)

\* round(x) of the fraction x = num / den >= 0, ties to the even integer
round(num, den) ==
    LET q == num \div den
        r == num % den
    IN  IF 2 * r > den \/ (2 * r = den /\ q % 2 = 1) THEN q + 1 ELSE q

\* DataFrame.sample(frac=num/den): the number of rows drawn from n rows
sample_size(num, den, n) == round(num * n, den)

\* sampling that ignores replace=False
Candidates_any(replace, n, drawn) == 1..n

\* the labels a draw may return: any label with replacement, else any label
\* not drawn before
Candidates(replace, n, drawn) ==
    IF replace THEN 1..n
    ELSE {i \in 1..n : \A k \in 1..Len(drawn) : drawn[k] # i}

\* the rows of df at the labels drawn
take(df, labels) == [k \in 1..Len(labels) |-> df[labels[k]]]

InitSample == InitData("scenarios", MaxSampleRows, {0})

\* line 128: sample_df.sample(frac=2, replace=True)
HeavyBegin ==
    /\ pc = "scenarios"
    /\ Len(base_df) <= MaxHeavyRows
    /\ remaining' = sample_size(2, 1, Len(base_df))
    /\ picked' = <<>>
    /\ pc' = "heavy"
    /\ UNCHANGED <<clock, elapsed, now, start_date, day, burst_times, end_time,
                   wi, kind, rec, rng, base_df, additional_data, counts,
                   expensive_data, result>>

\* line 129: sample_df.sample(frac=0.3)
LightBegin ==
    /\ pc = "scenarios"
    /\ remaining' = sample_size(3, 10, Len(base_df))
    /\ picked' = <<>>
    /\ pc' = "light"
    /\ UNCHANGED <<clock, elapsed, now, start_date, day, burst_times, end_time,
                   wi, kind, rec, rng, base_df, additional_data, counts,
                   expensive_data, result>>

\* one label drawn
SampleDraw ==
    /\ pc \in {"heavy", "light"}
    /\ remaining > 0
    /\ \E i \in Candidates(pc = "heavy", Len(base_df), picked) :
         picked' = Append(picked, i)
    /\ remaining' = remaining - 1
    /\ UNCHANGED <<pc, clock, elapsed, now, start_date, day, burst_times,
                   end_time, wi, kind, rec, rng, base_df, additional_data,
                   counts, expensive_data, result>>

\* the sampled table: the rows at the labels drawn
SampleTake ==
    /\ pc \in {"heavy", "light"}
    /\ remaining = 0
    /\ result' = take(base_df, picked)
    /\ pc' = IF pc = "heavy" THEN "heavy_usage" ELSE "light_usage"
    /\ UNCHANGED <<clock, elapsed, now, start_date, day, burst_times, end_time,
                   wi, kind, rec, rng, base_df, additional_data, remaining,
                   counts, expensive_data, picked>>

NextSample ==
    \/ HeavyBegin
    \/ LightBegin
    \/ SampleDraw
    \/ SampleTake

SpecSample == InitSample /\ [][NextSample]_vars

----------------------------------------------------------------------------
(* Properties of the records, checked under Spec *)

\* the instant rec carries
RecTime == fromisoformat(rec.timestamp)

\* C1: in every generated record, model_name is one of the models the catalog
\* lists for the provider named by provider_name
C1_ModelBelongsToProvider ==
    kind # "none" =>
        \E i \in 1..Len(providers_data[rec.provider_name]) :
            providers_data[rec.provider_name][i] = rec.model_name

\* C2: every record generate_burst_pattern appends carries one of the two
\* pairs (OpenAI, gpt-4), (Anthropic, claude-3-opus)
C2_BurstPairIsHeavyPair ==
    kind = "burst" =>
        <<rec.provider_name, rec.model_name>> \in
            {<<"OpenAI", "gpt-4">>, <<"Anthropic", "claude-3-opus">>}

\* C5: a base record has input_tokens in [50, 2000] and output_tokens in
\* [20, 800]; a burst record has input_tokens in [500, 3000] and output_tokens
\* in [200, 1500]
C5_TokenRanges ==
    /\ kind = "base" =>
          rec.input_tokens \in 50..2000 /\ rec.output_tokens \in 20..800
    /\ kind = "burst" =>
          rec.input_tokens \in 500..3000 /\ rec.output_tokens \in 200..1500

\* a burst record at the top of both token ranges
C5_Witness ==
    kind = "burst" /\ rec.input_tokens = 3000 /\ rec.output_tokens = 1500

\* C7: in every generated record response_time is strictly positive and a
\* whole number of hundredths of a second
C7_ResponseTimeRounded ==
    kind # "none" =>
        rec.response_time > 0 /\ rec.response_time % 10000 = 0

\* a base record whose product 1.181 * 0.909 = 1.073529 was rounded to 1.07
C7_Witness ==
    kind = "base" /\ rec.response_time = 1070000

\* C8: every record generate_cost_focused_data appends has
\* now - 30 days <= timestamp <= now, now the clock read for that record
C8_CostTimestampInWindow ==
    kind \in {"expensive", "cheap"} =>
        now - timedelta(30, 0, 0) <= RecTime /\ RecTime <= now

\* C9: every burst record's timestamp lies in a window [w, w + 2h], w one of
\* the instants 3 days apart from now - 30 days, the window lying inside the
\* trailing 30 days: no timestamp is later than the invocation time or earlier
\* than now - 30 days
C9_BurstTimestampInWindow ==
    kind = "burst" =>
        /\ \E k \in 0..10 :
              LET w == now - timedelta(30, 0, 0) + timedelta(3 * k, 0, 0)
              IN  /\ w <= RecTime /\ RecTime <= w + timedelta(0, 2, 0)
                  /\ now - timedelta(30, 0, 0) <= w
                  /\ w + timedelta(0, 2, 0) <= end_time
        /\ now - timedelta(30, 0, 0) <= RecTime
        /\ RecTime <= end_time

\* C10 as stated: every base record has now - 30 days <= timestamp <= now,
\* now the clock read at the start of generation
C10_BaseTimestampInWindow ==
    kind = "base" =>
        now - timedelta(30, 0, 0) <= RecTime /\ RecTime <= now

\* C10 as amended: every base record's timestamp falls on one of the 30
\* calendar dates from 30 days to 1 day before the date of now, so that
\* now - 31 days < timestamp < now
C10_BaseTimestampOnTrailingDates ==
    kind = "base" =>
        /\ Date(now) - 30 <= Date(RecTime)
        /\ Date(RecTime) <= Date(now) - 1
        /\ now - timedelta(31, 0, 0) < RecTime
        /\ RecTime < now

\* a base record of day 0 whose time of day is earlier than that of now
C10_Witness ==
    kind = "base" /\ day = 0 /\ RecTime < now - timedelta(30, 0, 0)

----------------------------------------------------------------------------
(* Properties of the tables, checked under SpecBurst, SpecCost, SpecSample *)

RECURSIVE SumSeq(_)
SumSeq(q) == IF q = <<>> THEN 0 ELSE q[1] + SumSeq(Tail(q))

\* C3: the table generate_burst_pattern returns is the base rows, unchanged
\* and in order, followed by the burst rows window after window; its length
\* is the base length plus the sum of the windows' counts, each between 50
\* and 100
C3_BurstTableIsBaseThenWindows ==
    pc = "burst_done" =>
        LET n == Len(base_df)
            upto(j) == SumSeq(SubSeq(counts, 1, j))
        IN  /\ Len(result) = n + SumSeq(counts)
            /\ SubSeq(result, 1, n) = base_df
            /\ Len(counts) = Len(burst_times)
            /\ \A j \in 1..Len(counts) :
                  /\ counts[j] \in 50..100
                  /\ \A k \in (upto(j - 1) + 1)..upto(j) :
                        LET t == fromisoformat(result[n + k].timestamp)
                        IN  /\ burst_times[j] <= t
                            /\ t <= burst_times[j] + timedelta(0, 2, 0)

\* a returned table of two base rows and eleven windows of burst rows
C3_Witness ==
    /\ pc = "burst_done"
    /\ Len(base_df) = 2
    /\ Len(counts) = 11
    /\ Len(result) > 2 + 11 * 50

\* C4: of a base table of N rows the heavy-usage table has 2 * N rows, each a
\* row of the base table, and the light-usage table has round(0.3 * N) rows,
\* each a row of the base table, no base row taken twice
C4_SampleSizesAndMembership ==
    LET n == Len(base_df)
        members == \A k \in 1..Len(result) :
                      /\ picked[k] \in 1..n
                      /\ result[k] = base_df[picked[k]]
    IN  /\ pc = "heavy_usage" => Len(result) = 2 * n /\ members
        /\ pc = "light_usage" =>
              /\ 10 * Len(result) - 3 * n \in -5..5
              /\ (10 * Len(result) - 3 * n \in {-5, 5}) => Len(result) % 2 = 0
              /\ members
              /\ \A j, k \in 1..Len(picked) : j # k => picked[j] # picked[k]

\* the light-usage table of 15 base rows: 0.3 * 15 = 4.5 rounds to 4 rows
C4_Witness ==
    pc = "light_usage" /\ Len(base_df) = 15 /\ Len(result) = 4

\* C6: the table generate_cost_focused_data returns is the base rows,
\* unchanged and in order, then 200 rows that all carry (OpenAI, gpt-4), then
\* 300 cheap-tier rows; its length is the base length + 500
C6_CostTableIsBaseThen200Then300 ==
    pc = "cost_done" =>
        LET n == Len(base_df)
        IN  /\ Len(result) = n + 500
            /\ SubSeq(result, 1, n) = base_df
            /\ \A k \in 1..200 :
                  /\ result[n + k].provider_name = "OpenAI"
                  /\ result[n + k].model_name = "gpt-4"
            /\ \A k \in 201..500 :
                  /\ result[n + k].provider_name \in {"Google", "Cohere"}
                  /\ result[n + k].model_name \in {"gemini-pro", "command-light"}

\* a returned table of two base rows, the 200th appended row expensive and
\* the 201st cheap
C6_Witness ==
    /\ pc = "cost_done"
    /\ Len(base_df) = 2
    /\ result[202].model_name = "gpt-4"
    /\ result[203].provider_name \in {"Google", "Cohere"}

====
